---- MODULE Spec2Model ----
(***************************************************************************)
(* DevSolver client: the Home page (pages/index.js), the QueryPanel, the   *)
(* CodeInputPanel, the ResultsPanel, the NotificationProvider and the      *)
(* Notification components with their timeouts, as one state machine.      *)
(*                                                                         *)
(* React state is the module's state.  A handler runs to completion before *)
(* the next event is delivered, so each handler is one action; a handler   *)
(* that awaits (handleSubmit, FileReader.onload) is one action up to the   *)
(* await and one action per continuation.  A handler reads the state of    *)
(* the render it was created in: a continuation that runs later carries    *)
(* the values its closure captured.                                        *)
(***************************************************************************)
EXTENDS Integers, Sequences, FiniteSets, TLC

VARIABLES
    codeData,               \* Home: {code, language, source, githubRepo}
    query,                  \* Home: the question text
    results,                \* Home: the displayed QueryResponse, or Null
    loading,                \* Home: a query is being processed
    codeAnalysis,           \* Home: the displayed code analysis, or Null
    supportedTechnologies,  \* Home: the list GET /technologies returned
    notifications,          \* NotificationProvider: the list of notifications
    now,                    \* the clock Date.now() reads
    pending,                \* POST /query requests issued and not yet settled
    githubUrl,              \* CodeInputPanel: the text of the GitHub URL input
    showGithubInput,        \* CodeInputPanel: the GitHub input area is open
    readers,                \* FileReaders started and not yet loaded
    feedback,               \* what the last event showed the user when it changed no state
    components,             \* the Notification component rendered for each list entry
    closeTimers,            \* setTimeout(onClose, 300) calls that have not fired yet
    activeTab,              \* Home: the tab of the ResultsPanel
    techFetch,              \* Home: the mount effect and its GET /technologies
    header,                 \* Header: its state, and the width of the window
    resultsPanel            \* ResultsPanel: thumbsUp, thumbsDown, bookmarked

vars == <<codeData, query, results, loading, codeAnalysis, supportedTechnologies,
          notifications, now, pending, githubUrl, showGithubInput, readers, feedback,
          components, closeTimers, activeTab, techFetch, header, resultsPanel>>

viewVars == <<header, resultsPanel>>

pageVars == <<supportedTechnologies, techFetch, activeTab>>
homeVars == <<query, results, loading, codeAnalysis, pageVars>>
toastVars == <<notifications, components, closeTimers>>
netVars == <<pending>>
panelVars == <<githubUrl, showGithubInput, readers>>

-----------------------------------------------------------------------------
(* Bounds of the exploration *)

MaxNotifs == 1      \* notifications kept in the list at once
MaxTime == 1        \* clock ticks explored
MaxReaders == 1     \* file reads in progress at once
MaxSegs == 6        \* path segments of an entered GitHub URL
MaxToasts == 3      \* notifications a consumer of useNotification() keeps in the list

-----------------------------------------------------------------------------
(* Values *)

\* JavaScript null, for the object-valued fields (results, codeAnalysis, githubRepo)
Null == [null |-> TRUE]

\* JavaScript null, for the string-valued field githubRepo.path
Absent == "<null>"

\* Texts the user types into the editor, and the decoded texts of selectable files
CodeTexts == {"", "print(1)"}
FileTexts == {"file text"}

\* QueryPanel.exampleQuestions (one of the seven), and the texts the user types
exampleQuestions == {"How can I optimize this function for better performance?"}
QueryTexts == {"", "why?"}

\* The four buttons the language dropdown shows while supportedTechnologies is empty
FallbackTechnologies == <<"python", "javascript", "typescript", "react">>

\* The languages the user picks in the explored runs
PickedLanguages == {"python", "javascript"}

\* QueryResponse bodies the backend answers with (each solution and the
\* analysis are optional)
Responses ==
    { [official_solution |-> [answer |-> "official 1"], community_solution |-> Null,
       code_analysis |-> [complexity_score |-> 3]],
      [official_solution |-> Null, community_solution |-> [answer |-> "community 2"],
       code_analysis |-> [complexity_score |-> 7]],
      [official_solution |-> [answer |-> "official 3"],
       community_solution |-> [answer |-> "community 3"], code_analysis |-> Null] }

\* The bodies GET /technologies answers with
ServerLists == { <<"python", "javascript", "typescript", "react">>, <<"javascript", "go">> }

\* The errors submitQuery rethrows: no response (transport), and responses
\* with a 4xx or 5xx status and the detail the server put in the body
Errors ==
    { [message |-> "Network Error", status |-> 0, detail |-> ""],
      [message |-> "Request failed with status code 500", status |-> 500,
       detail |-> "ProviderError: upstream key sk-1 rejected"],
      [message |-> "Request failed with status code 422", status |-> 422,
       detail |-> "query: field required"] }

MsgWelcome == "Welcome to DevSolver! Enter your code and ask a question to get started."
MsgTechFailed == "Failed to load supported technologies"
MsgNoCode == "Please provide code to analyze"
MsgNoQuery == "Please enter a question about your code"
MsgComplete == "Analysis complete! Showing results from both documentation and community sources."
MsgFailed == "An error occurred while processing your request. Please try again."
AlertInvalidUrl == "Please enter a valid GitHub URL"
AlertInvalidRepo == "Please enter a valid GitHub repository URL"
SubmitIgnored == "submit button disabled"
DefaultDuration == 5000
WelcomeDuration == 7000
CloseDelay == 300
NoTimer == -1

\* What the consumers of useNotification() add: a default error, and a
\* notification that is not dismissed automatically (duration 0)
Notices ==
    { [type |-> "error", message |-> MsgNoCode, duration |-> DefaultDuration],
      [type |-> "warning", message |-> "pinned", duration |-> 0] }

-----------------------------------------------------------------------------
(* NotificationProvider *)

\* addNotification putting the new notification first
addNotification_prepend(prev, t, type, message, duration) ==
    <<[id |-> t, type |-> type, message |-> message, duration |-> duration]>> \o prev

addNotification(prev, t, type, message, duration) ==
    Append(prev, [id |-> t, type |-> type, message |-> message, duration |-> duration])

\* removeNotification dropping the oldest notification when the id is not found
removeNotification_orOldest(prev, id) ==
    IF \E i \in 1..Len(prev) : prev[i].id = id
    THEN SelectSeq(prev, LAMBDA notification : notification.id # id)
    ELSE SubSeq(prev, 2, Len(prev))

removeNotification(prev, id) ==
    SelectSeq(prev, LAMBDA notification : notification.id # id)

showSuccess(prev, t, message) == addNotification(prev, t, "success", message, DefaultDuration)

showError(prev, t, message) == addNotification(prev, t, "error", message, DefaultDuration)

showInfo(prev, t, message, duration) == addNotification(prev, t, "info", message, duration)

RemoveAt(s, i) == SubSeq(s, 1, i - 1) \o SubSeq(s, i + 1, Len(s))

-----------------------------------------------------------------------------
(* The Notification component.  components[i] is the component rendered for  *)
(* notifications[i]: isVisible, the handle of the auto-dismiss timeout its   *)
(* effect set (the time it is due, or NoTimer), and closed, which records    *)
(* that the close button was used (the program does not store it).           *)

\* the component as first rendered, before its effect has run
Mounted == [isVisible |-> TRUE, closed |-> FALSE, timer |-> NoTimer]

\* The provider renders list at time t.  Every Notification gets a new onClose
\* function, a dependency of its effect: the cleanup clears the timeout and
\* the effect sets a new one when duration > 0.
Effect(list, comps, t) ==
    [i \in 1..Len(list) |->
        [comps[i] EXCEPT !.timer = IF list[i].duration > 0
                                   THEN t + list[i].duration
                                   ELSE NoTimer]]

\* the components of the entries of list that removeNotification(list, id) keeps
Kept(list, comps, id) ==
    LET idx == SelectSeq([i \in 1..Len(list) |-> i], LAMBDA i : list[i].id # id)
    IN  [k \in 1..Len(idx) |-> comps[idx[k]]]

\* the render that follows setNotifications(prev => [...prev, notification])
Added ==
    /\ components' = Effect(notifications', Append(components, Mounted), now)
    /\ UNCHANGED closeTimers

\* the render that follows setNotifications(prev => prev.filter(...))
Removed(id) == components' = Effect(notifications', Kept(notifications, components, id), now)

\* onClose of a rendered notification (its timer or its close button fired)
NotificationClose ==
    /\ \E i \in 1..Len(notifications) :
          /\ notifications' = removeNotification(notifications, notifications[i].id)
          /\ Removed(notifications[i].id)
    /\ feedback' = "none"
    /\ UNCHANGED <<viewVars, codeData, homeVars, now, netVars, panelVars, closeTimers>>

\* a consumer of useNotification() adds a notification (in the explored runs,
\* during the first MaxTime ticks)
Notify ==
    /\ Len(notifications) < MaxToasts
    /\ now <= MaxTime
    /\ \E n \in Notices :
          notifications' = addNotification(notifications, now, n.type, n.message, n.duration)
    /\ Added
    /\ feedback' = "none"
    /\ UNCHANGED <<viewVars, codeData, homeVars, now, netVars, panelVars>>

\* setTimeout(onClose, 300), called by the component of notifications[i]
CloseScheduled(i) ==
    closeTimers' = Append(closeTimers, [id |-> notifications[i].id, due |-> now + CloseDelay])

\* the auto-dismiss timeout of notifications[i] fires
TimerFires(i) ==
    /\ i \in 1..Len(notifications)
    /\ components[i].timer # NoTimer
    /\ components[i].timer <= now
    /\ components' = [components EXCEPT ![i].isVisible = FALSE, ![i].timer = NoTimer]
    /\ CloseScheduled(i)
    /\ feedback' = "none"
    /\ UNCHANGED <<viewVars, codeData, homeVars, notifications, now, netVars, panelVars>>

\* handleClose with the notification removed at once
handleClose_atOnce(i) ==
    /\ i \in 1..Len(notifications)
    /\ components[i].isVisible
    /\ notifications' = removeNotification(notifications, notifications[i].id)
    /\ Removed(notifications[i].id)
    /\ feedback' = "none"
    /\ UNCHANGED <<viewVars, codeData, homeVars, now, netVars, panelVars, closeTimers>>

\* the close button of notifications[i] (rendered while isVisible)
handleClose(i) ==
    /\ i \in 1..Len(notifications)
    /\ components[i].isVisible
    /\ components' = [components EXCEPT ![i].isVisible = FALSE, ![i].closed = TRUE]
    /\ CloseScheduled(i)
    /\ feedback' = "none"
    /\ UNCHANGED <<viewVars, codeData, homeVars, notifications, now, netVars, panelVars>>

\* closeTimers[k] fires: onClose, which is removeNotification(id)
CloseTimerFires(k) ==
    /\ k \in 1..Len(closeTimers)
    /\ closeTimers[k].due <= now
    /\ notifications' = removeNotification(notifications, closeTimers[k].id)
    /\ Removed(closeTimers[k].id)
    /\ closeTimers' = RemoveAt(closeTimers, k)
    /\ feedback' = "none"
    /\ UNCHANGED <<viewVars, codeData, homeVars, now, netVars, panelVars>>

\* the times at which a timeout that has not fired is due
Dues ==
    {components[i].timer : i \in {j \in 1..Len(components) : components[j].timer # NoTimer}}
        \cup {closeTimers[k].due : k \in 1..Len(closeTimers)}

\* A timeout fires when it is due: the clock passes no pending timeout
Tick ==
    /\ now < MaxTime
    /\ \A due \in Dues : due > now
    /\ now' = now + 1
    /\ feedback' = "none"
    /\ UNCHANGED <<viewVars, codeData, homeVars, toastVars, netVars, panelVars>>

\* Nothing happens until the next timeout is due
TimePasses ==
    /\ Dues # {}
    /\ \A due \in Dues : due > now
    /\ \E next \in Dues :
          /\ \A due \in Dues : next <= due
          /\ now' = next
    /\ feedback' = "none"
    /\ UNCHANGED <<viewVars, codeData, homeVars, toastVars, netVars, panelVars>>

-----------------------------------------------------------------------------
(* Home: the mount effect and utils/api.getSupportedTechnologies *)

\* The effect with no dependencies: fetchTechnologies() up to its await, then
\* the welcome notification
Mount ==
    /\ techFetch = "unmounted"
    /\ techFetch' = "pending"
    /\ Len(notifications) < MaxToasts
    /\ notifications' = showInfo(notifications, now, MsgWelcome, WelcomeDuration)
    /\ Added
    /\ feedback' = "none"
    /\ UNCHANGED <<viewVars, codeData, query, results, loading, codeAnalysis, supportedTechnologies,
                   activeTab, now, netVars, panelVars>>

\* getSupportedTechnologies resolves with response.data.technologies
TechnologiesLoaded ==
    /\ techFetch = "pending"
    /\ techFetch' = "loaded"
    /\ \E technologies \in ServerLists : supportedTechnologies' = technologies
    /\ feedback' = "none"
    /\ UNCHANGED <<viewVars, codeData, query, results, loading, codeAnalysis, activeTab,
                   toastVars, now, netVars, panelVars>>

\* TechnologiesFailed with a catch block that only logs
TechnologiesFailed_silent ==
    /\ techFetch = "pending"
    /\ techFetch' = "failed"
    /\ feedback' = "none"
    /\ UNCHANGED <<viewVars, codeData, query, results, loading, codeAnalysis, supportedTechnologies,
                   activeTab, toastVars, now, netVars, panelVars>>

\* getSupportedTechnologies rethrows: the catch block of fetchTechnologies
TechnologiesFailed ==
    /\ techFetch = "pending"
    /\ techFetch' = "failed"
    /\ Len(notifications) < MaxToasts
    /\ notifications' = showError(notifications, now, MsgTechFailed)
    /\ Added
    /\ feedback' = "none"
    /\ UNCHANGED <<viewVars, codeData, query, results, loading, codeAnalysis, supportedTechnologies,
                   activeTab, now, netVars, panelVars>>

-----------------------------------------------------------------------------
(* Home: the field handlers.  Each returns the object handed to setCodeData, *)
(* built from cd, the codeData of the render the handler was created in.     *)

handleCodeChange(cd, code) == [cd EXCEPT !.code = code]

handleLanguageChange(cd, language) == [cd EXCEPT !.language = language]

\* handleSourceChange starting the new source with an empty editor
handleSourceChange_clearsCode(cd, source, githubRepo) ==
    [cd EXCEPT !.source = source, !.githubRepo = githubRepo, !.code = ""]

\* handleSourceChange keeping the repository when none is passed
handleSourceChange_keepsRepo(cd, source, githubRepo) ==
    [cd EXCEPT !.source = source,
               !.githubRepo = IF githubRepo = Null THEN cd.githubRepo ELSE githubRepo]

handleSourceChange(cd, source, githubRepo) ==
    [cd EXCEPT !.source = source, !.githubRepo = githubRepo]

\* The options the language dropdown renders
DropdownOptions(technologies) ==
    IF Len(technologies) > 0
    THEN {technologies[i] : i \in 1..Len(technologies)}
    ELSE {FallbackTechnologies[i] : i \in 1..Len(FallbackTechnologies)}

\* The CodeMirror editor is rendered unless a GitHub repository is displayed
EditorShown(cd) == ~(cd.source = "github" /\ cd.githubRepo # Null)

CodeEdit ==
    /\ EditorShown(codeData)
    /\ \E code \in CodeTexts : codeData' = handleCodeChange(codeData, code)
    /\ feedback' = "none"
    /\ UNCHANGED <<viewVars, homeVars, toastVars, now, netVars, panelVars>>

LanguagePick ==
    /\ \E tech \in DropdownOptions(supportedTechnologies) \cap PickedLanguages :
          codeData' = handleLanguageChange(codeData, tech)
    /\ feedback' = "none"
    /\ UNCHANGED <<viewVars, homeVars, toastVars, now, netVars, panelVars>>

\* The textarea of the QueryPanel (disabled while loading)
QueryEdit ==
    /\ ~loading
    /\ \E text \in QueryTexts : query' = text
    /\ feedback' = "none"
    /\ UNCHANGED <<viewVars, codeData, results, loading, codeAnalysis, pageVars,
                   toastVars, now, netVars, panelVars>>

\* QueryPanel.applyExample: "Show examples", then one of the example buttons
ApplyExample ==
    /\ \E example \in exampleQuestions : query' = example
    /\ feedback' = "none"
    /\ UNCHANGED <<viewVars, codeData, results, loading, codeAnalysis, pageVars,
                   toastVars, now, netVars, panelVars>>

-----------------------------------------------------------------------------
(* Home.handleSubmit and utils/api.submitQuery *)

\* RejectsNoCode with the test left out
RejectsNoCode_never(cd) == FALSE

\* the first validation of handleSubmit
RejectsNoCode(cd) == cd.code = "" /\ cd.source = "snippet"

\* RejectsNoQuery with the test left out
RejectsNoQuery_never(q) == FALSE

\* the second validation of handleSubmit
RejectsNoQuery(q) == q = ""

\* queryData with the code and the question in each other's field
queryData_swapped(cd, q) ==
    [source |-> cd.source,
     technology |-> cd.language,
     code_snippet |-> q,
     github_repo |-> cd.githubRepo,
     query |-> cd.code,
     response_source_preference |-> "both"]

\* the body handleSubmit posts
queryData(cd, q) ==
    [source |-> cd.source,
     technology |-> cd.language,
     code_snippet |-> cd.code,
     github_repo |-> cd.githubRepo,
     query |-> q,
     response_source_preference |-> "both"]

\* SubmitDisabled with the button never disabled
SubmitDisabled_never == FALSE

\* the submit button of the QueryPanel is disabled
SubmitDisabled == loading

\* handleSubmit with the two validations in the other order
handleSubmit_queryFirst ==
    IF RejectsNoQuery(query) THEN
        /\ Len(notifications) < MaxNotifs
        /\ notifications' = showError(notifications, now, MsgNoQuery)
        /\ Added
        /\ UNCHANGED <<loading, pending>>
    ELSE IF RejectsNoCode(codeData) THEN
        /\ Len(notifications) < MaxNotifs
        /\ notifications' = showError(notifications, now, MsgNoCode)
        /\ Added
        /\ UNCHANGED <<loading, pending>>
    ELSE
        /\ loading' = TRUE
        /\ pending' = Append(pending,
                             [req |-> queryData(codeData, query),
                              shown |-> [results |-> results, codeAnalysis |-> codeAnalysis]])
        /\ UNCHANGED toastVars

\* handleSubmit up to the await.  A request in flight remembers what was
\* displayed when it was issued (shown), which the program does not store.
handleSubmit ==
    IF RejectsNoCode(codeData) THEN
        /\ Len(notifications) < MaxNotifs
        /\ notifications' = showError(notifications, now, MsgNoCode)
        /\ Added
        /\ UNCHANGED <<loading, pending>>
    ELSE IF RejectsNoQuery(query) THEN
        /\ Len(notifications) < MaxNotifs
        /\ notifications' = showError(notifications, now, MsgNoQuery)
        /\ Added
        /\ UNCHANGED <<loading, pending>>
    ELSE
        /\ loading' = TRUE
        /\ pending' = Append(pending,
                             [req |-> queryData(codeData, query),
                              shown |-> [results |-> results, codeAnalysis |-> codeAnalysis]])
        /\ UNCHANGED toastVars

\* A click on "Get Answer" while it is enabled: QueryPanel.handleSubmit
SubmitClick ==
    /\ ~SubmitDisabled
    /\ handleSubmit
    /\ feedback' = "none"
    /\ UNCHANGED <<viewVars, codeData, query, results, codeAnalysis, pageVars,
                   now, panelVars>>

\* A click on "Get Answer" while it is disabled: no event reaches the form
SubmitClickDisabled ==
    /\ SubmitDisabled
    /\ feedback' = SubmitIgnored
    /\ UNCHANGED <<viewVars, codeData, homeVars, toastVars, now, netVars, panelVars>>

\* ResultsPanel's effect on [results]: a response is a new object, so the
\* effect runs after every setResults and clears both votes
resultsEffect(rp) == [rp EXCEPT !.thumbsUp = FALSE, !.thumbsDown = FALSE]

\* QueryResolves without setCodeAnalysis
QueryResolves_keepsAnalysis(i) ==
    /\ i \in 1..Len(pending)
    /\ Len(notifications) < MaxNotifs
    /\ \E data \in Responses : results' = data
    /\ notifications' = showSuccess(notifications, now, MsgComplete)
    /\ Added
    /\ loading' = FALSE
    /\ pending' = RemoveAt(pending, i)
    /\ resultsPanel' = resultsEffect(resultsPanel)
    /\ feedback' = "none"
    /\ UNCHANGED <<header, codeData, query, codeAnalysis, pageVars, now, panelVars>>

\* submitQuery resolves with data: the rest of the try block, then finally
QueryResolves(i) ==
    /\ i \in 1..Len(pending)
    /\ Len(notifications) < MaxNotifs
    /\ \E data \in Responses :
          /\ results' = data
          /\ codeAnalysis' = data.code_analysis
    /\ notifications' = showSuccess(notifications, now, MsgComplete)
    /\ Added
    /\ loading' = FALSE
    /\ pending' = RemoveAt(pending, i)
    /\ resultsPanel' = resultsEffect(resultsPanel)
    /\ feedback' = "none"
    /\ UNCHANGED <<header, codeData, query, pageVars, now, panelVars>>

\* QueryFails with the catch block clearing what is displayed
QueryFails_clearing(i) ==
    /\ i \in 1..Len(pending)
    /\ Len(notifications) < MaxNotifs
    /\ notifications' = showError(notifications, now, MsgFailed)
    /\ Added
    /\ results' = Null
    /\ codeAnalysis' = Null
    /\ loading' = FALSE
    /\ pending' = RemoveAt(pending, i)
    /\ feedback' = "none"
    /\ UNCHANGED <<viewVars, codeData, query, pageVars, now, panelVars>>

\* QueryFails without the finally block
QueryFails_keepsLoading(i) ==
    /\ i \in 1..Len(pending)
    /\ Len(notifications) < MaxNotifs
    /\ notifications' = showError(notifications, now, MsgFailed)
    /\ Added
    /\ pending' = RemoveAt(pending, i)
    /\ feedback' = "none"
    /\ UNCHANGED <<viewVars, codeData, query, results, loading, codeAnalysis, pageVars,
                   now, panelVars>>

\* FailureMessage showing the text the error carries
FailureMessage_raw(error) == error.message

\* the text the catch block of handleSubmit shows for the error it caught
FailureMessage(error) == MsgFailed

\* submitQuery rethrows a transport or server error: catch, then finally
QueryFails(i) ==
    /\ i \in 1..Len(pending)
    /\ Len(notifications) < MaxNotifs
    /\ \E error \in Errors :
          notifications' = showError(notifications, now, FailureMessage(error))
    /\ Added
    /\ loading' = FALSE
    /\ pending' = RemoveAt(pending, i)
    /\ feedback' = "none"
    /\ UNCHANGED <<viewVars, codeData, query, results, codeAnalysis, pageVars,
                   now, panelVars>>

-----------------------------------------------------------------------------
(* ResultsPanel: what it renders, and its tab buttons *)

Tabs == {"official", "community", "analysis"}

\* renderSolution showing the spinner for a solution that is absent
renderSolution_spinner(solution, type) ==
    IF solution = Null
    THEN [view |-> "loading", text |-> "Processing your request..."]
    ELSE [view |-> "solution", text |-> solution.answer]

renderSolution(solution, type) ==
    IF solution = Null
    THEN [view |-> "empty", text |-> "No " \o type \o " solution available"]
    ELSE [view |-> "solution", text |-> solution.answer]

renderCodeAnalysis(analysis) ==
    IF analysis = Null
    THEN [view |-> "blank", text |-> ""]
    ELSE [view |-> "analysis", text |-> "Issues Detected"]

\* the component's return value for its props
ResultsPanel(res, busy, tab, analysis) ==
    IF busy THEN [view |-> "loading", text |-> "Processing your request..."]
    ELSE IF res = Null THEN [view |-> "ready", text |-> "Ready to Help"]
    ELSE IF tab = "official" THEN renderSolution(res.official_solution, "official")
    ELSE IF tab = "community" THEN renderSolution(res.community_solution, "community")
    ELSE renderCodeAnalysis(analysis)

\* the tab buttons are rendered once there are results and no query is running
TabButtonsShown == ~loading /\ results # Null

\* TabClick submitting the form again for the chosen tab
TabClick_resubmits ==
    /\ TabButtonsShown
    /\ \E tab \in Tabs : activeTab' = tab
    /\ loading' = TRUE
    /\ pending' = Append(pending,
                         [req |-> queryData(codeData, query),
                          shown |-> [results |-> results, codeAnalysis |-> codeAnalysis]])
    /\ feedback' = "none"
    /\ UNCHANGED <<viewVars, codeData, query, results, codeAnalysis, supportedTechnologies,
                   techFetch, toastVars, now, panelVars>>

\* a tab button: onTabChange(tab), which is Home.handleTabChange
TabClick ==
    /\ TabButtonsShown
    /\ \E tab \in Tabs : activeTab' = tab
    /\ feedback' = "none"
    /\ UNCHANGED <<viewVars, codeData, query, results, loading, codeAnalysis, supportedTechnologies,
                   techFetch, toastVars, now, netVars, panelVars>>

\* the bookmark and vote buttons are part of a rendered solution
VoteButtonsShown ==
    ResultsPanel(results, loading, activeTab, codeAnalysis).view = "solution"

\* handleVote setting the chosen flag only
handleVote_keepsOther(rp, isUp) ==
    IF isUp THEN [rp EXCEPT !.thumbsUp = TRUE] ELSE [rp EXCEPT !.thumbsDown = TRUE]

handleVote(rp, isUp) ==
    IF isUp
    THEN [rp EXCEPT !.thumbsUp = TRUE, !.thumbsDown = FALSE]
    ELSE [rp EXCEPT !.thumbsDown = TRUE, !.thumbsUp = FALSE]

\* "This was helpful" (isUp) and "This wasn't helpful"
Vote(isUp) ==
    /\ VoteButtonsShown
    /\ resultsPanel' = handleVote(resultsPanel, isUp)
    /\ feedback' = "none"
    /\ UNCHANGED <<header, codeData, homeVars, toastVars, now, netVars, panelVars>>

toggleBookmark ==
    /\ VoteButtonsShown
    /\ resultsPanel' = [resultsPanel EXCEPT !.bookmarked = ~resultsPanel.bookmarked]
    /\ feedback' = "none"
    /\ UNCHANGED <<header, codeData, homeVars, toastVars, now, netVars, panelVars>>

-----------------------------------------------------------------------------
(* Header.  header.wide says that the window is at least as wide as the md   *)
(* breakpoint: the desktop navigation is displayed then, the mobile controls *)
(* otherwise (className "hidden md:flex" and "md:hidden").                   *)

headerFrame ==
    UNCHANGED <<resultsPanel, codeData, homeVars, toastVars, now, netVars, panelVars>>

\* the Help button of the desktop navigation
HelpButton ==
    /\ header.wide
    /\ header' = [header EXCEPT !.isHelpOpen = ~header.isHelpOpen]
    /\ feedback' = "none"
    /\ headerFrame

\* the button that opens and closes the mobile menu
MobileMenuButton ==
    /\ ~header.wide
    /\ header' = [header EXCEPT !.isMobileMenuOpen = ~header.isMobileMenuOpen]
    /\ feedback' = "none"
    /\ headerFrame

\* the Help button inside the mobile menu
MobileHelpButton ==
    /\ ~header.wide
    /\ header.isMobileMenuOpen
    /\ header' = [header EXCEPT !.isHelpOpen = ~header.isHelpOpen,
                                !.isMobileMenuOpen = FALSE]
    /\ feedback' = "none"
    /\ headerFrame

\* "Close help" in the help panel
CloseHelp ==
    /\ header.isHelpOpen
    /\ header' = [header EXCEPT !.isHelpOpen = FALSE]
    /\ feedback' = "none"
    /\ headerFrame

toggleTheme ==
    /\ header' = [header EXCEPT !.isDarkMode = ~header.isDarkMode]
    /\ feedback' = "none"
    /\ headerFrame

\* the scroll listener: setIsScrolled(window.scrollY > 10)
handleScroll ==
    /\ \E scrolled \in BOOLEAN : header' = [header EXCEPT !.isScrolled = scrolled]
    /\ feedback' = "none"
    /\ headerFrame

\* the window is resized across the md breakpoint
Resize ==
    /\ header' = [header EXCEPT !.wide = ~header.wide]
    /\ feedback' = "none"
    /\ headerFrame

-----------------------------------------------------------------------------
(* CodeInputPanel: the GitHub URL.  The text of the input is a sequence of   *)
(* tokens: a scheme ("https:"), "/", "/", a host, then "/" and path segments. *)

\* new URL(text): the host name and the path name, or a TypeError (ok = FALSE)
NewURL(text) ==
    IF /\ Len(text) >= 4
       /\ text[1] \in {"https:", "http:"}
       /\ text[2] = "/" /\ text[3] = "/"
       /\ text[4] # "/"
       /\ (Len(text) > 4 => text[5] = "/")
    THEN [ok |-> TRUE, hostname |-> text[4],
          pathname |-> IF Len(text) = 4 THEN <<"/">> ELSE SubSeq(text, 5, Len(text))]
    ELSE [ok |-> FALSE, hostname |-> "", pathname |-> <<>>]

\* pathname.split('/'), reading from token i on with cur the segment read so far
RECURSIVE SplitFrom(_, _, _)
SplitFrom(s, i, cur) ==
    IF i > Len(s) THEN <<cur>>
    ELSE IF s[i] = "/" THEN <<cur>> \o SplitFrom(s, i + 1, "")
    ELSE SplitFrom(s, i + 1, cur \o s[i])

Split(s) == SplitFrom(s, 1, "")

\* .filter(Boolean) on an array of strings
FilterBoolean(parts) == SelectSeq(parts, LAMBDA p : p # "")

\* parts.slice(k)
Slice(parts, k) == SubSeq(parts, k + 1, Len(parts))

\* parts.join('/')
RECURSIVE Join(_)
Join(parts) ==
    IF Len(parts) = 0 THEN ""
    ELSE IF Len(parts) = 1 THEN parts[1]
    ELSE parts[1] \o "/" \o Join(Tail(parts))

\* parts[k] of a JavaScript array
At(parts, k) == parts[k + 1]

\* HostAccepted with the test left out
HostAccepted_any(hostname) == TRUE

\* the host test of handleGithubSubmit
HostAccepted(hostname) == hostname = "github.com"

\* githubRepoOf with the path sliced one segment early
githubRepoOf_sliceEarly(parts) ==
    [owner |-> At(parts, 0),
     repo |-> At(parts, 1),
     branch |-> IF Len(parts) > 3 /\ At(parts, 2) = "tree" THEN At(parts, 3) ELSE "main",
     path |-> IF Len(parts) > 4 /\ At(parts, 2) = "tree" THEN Join(Slice(parts, 3)) ELSE Absent]

\* owner, repo, branch and path of handleGithubSubmit
githubRepoOf(parts) ==
    [owner |-> At(parts, 0),
     repo |-> At(parts, 1),
     branch |-> IF Len(parts) > 3 /\ At(parts, 2) = "tree" THEN At(parts, 3) ELSE "main",
     path |-> IF Len(parts) > 4 /\ At(parts, 2) = "tree" THEN Join(Slice(parts, 4)) ELSE Absent]

\* window.alert(message)
Alert(message) ==
    /\ feedback' = message
    /\ UNCHANGED <<codeData, showGithubInput>>

\* The "Load" button of the GitHub input area
handleGithubSubmit ==
    /\ showGithubInput
    /\ LET url == NewURL(githubUrl) IN
         IF ~url.ok THEN Alert(AlertInvalidUrl)
         ELSE IF ~HostAccepted(url.hostname) THEN Alert(AlertInvalidUrl)
         ELSE LET parts == FilterBoolean(Split(url.pathname)) IN
              IF Len(parts) < 2 THEN Alert(AlertInvalidRepo)
              ELSE /\ codeData' = handleSourceChange(codeData, "github", githubRepoOf(parts))
                   /\ showGithubInput' = FALSE
                   /\ feedback' = "none"
    /\ UNCHANGED <<viewVars, homeVars, toastVars, now, netVars, githubUrl, readers>>

\* Typing into the GitHub URL input: the text becomes one of urls
GithubUrlInput(urls) ==
    /\ showGithubInput
    /\ \E text \in urls : githubUrl' = text
    /\ feedback' = "none"
    /\ UNCHANGED <<viewVars, codeData, homeVars, toastVars, now, netVars, showGithubInput,
                   readers>>

\* The "GitHub" source button toggles the input area
GithubButton ==
    /\ showGithubInput' = ~showGithubInput
    /\ feedback' = "none"
    /\ UNCHANGED <<viewVars, codeData, homeVars, toastVars, now, netVars, githubUrl,
                   readers>>

\* The "Snippet" source button
\* SnippetButton giving up the query in progress
SnippetButton_cancels ==
    /\ codeData' = handleSourceChange(codeData, "snippet", Null)
    /\ showGithubInput' = FALSE
    /\ loading' = FALSE
    /\ pending' = <<>>
    /\ feedback' = "none"
    /\ UNCHANGED <<viewVars, query, results, codeAnalysis, pageVars, toastVars, now,
                   githubUrl, readers>>

SnippetButton ==
    /\ codeData' = handleSourceChange(codeData, "snippet", Null)
    /\ showGithubInput' = FALSE
    /\ feedback' = "none"
    /\ UNCHANGED <<viewVars, homeVars, toastVars, now, netVars, githubUrl, readers>>

\* "Clear and switch to code snippet", shown with the displayed repository
ClearAndSwitch ==
    /\ ~EditorShown(codeData)
    /\ codeData' = handleSourceChange(codeData, "snippet", Null)
    /\ feedback' = "none"
    /\ UNCHANGED <<viewVars, homeVars, toastVars, now, netVars, panelVars>>

-----------------------------------------------------------------------------
(* CodeInputPanel: file upload *)

\* handleFileUpload: a file was chosen; reader.onload keeps the handlers of
\* the render in which the file was chosen, and with them its codeData (cd)
FileSelect ==
    /\ Len(readers) < MaxReaders
    /\ \E text \in FileTexts : readers' = Append(readers, [result |-> text, cd |-> codeData])
    /\ feedback' = "none"
    /\ UNCHANGED <<viewVars, codeData, homeVars, toastVars, now, netVars, githubUrl,
                   showGithubInput>>

\* reader.onload: onCodeChange(result) then onSourceChange('file').  Both
\* calls hand setCodeData an object built from the captured codeData; the
\* state after the handler is the object of the last call.
onload(reader) ==
    LET first == handleCodeChange(reader.cd, reader.result)
        second == handleSourceChange(reader.cd, "file", Null)
    IN  <<first, second>>[2]

FileLoaded ==
    /\ \E i \in 1..Len(readers) :
          /\ codeData' = onload(readers[i])
          /\ readers' = RemoveAt(readers, i)
    /\ feedback' = "none"
    /\ UNCHANGED <<viewVars, homeVars, toastVars, now, netVars, githubUrl, showGithubInput>>

-----------------------------------------------------------------------------
(* GitHub URL texts entered in the explored runs *)

Sep == {<<"/">>, <<"/", "/">>}

\* the segments a URL may have at position k
SegAt(k) ==
    IF k = 1 THEN {"acme"}
    ELSE IF k = 2 THEN {"widgets"}
    ELSE IF k = 3 THEN {"tree", "blob"}
    ELSE IF k = 4 THEN {"dev"}
    ELSE IF k = 5 THEN {"src", "docs"}
    ELSE IF k = 6 THEN {"lib"}
    ELSE {"util"}

RECURSIVE SegSeqs(_)
SegSeqs(n) ==
    IF n = 0 THEN {<<>>}
    ELSE {Append(s, x) : s \in SegSeqs(n - 1), x \in SegAt(n)}

\* the path tokens of segments segs, separated by sep, with the tokens tail after them
RECURSIVE PathTokens(_, _, _)
PathTokens(segs, sep, tail) ==
    IF Len(segs) = 0 THEN tail
    ELSE sep \o <<Head(segs)>> \o PathTokens(Tail(segs), sep, tail)

Hosts == {"github.com", "gitlab.com", "www.github.com"}

AllUrls ==
    { <<"https:", "/", "/", host>> \o PathTokens(segs, sep, tail) :
        host \in Hosts,
        segs \in UNION {SegSeqs(n) : n \in 0..MaxSegs},
        sep \in Sep,
        tail \in {<<>>, <<"/">>} }
    \cup { PathTokens(segs, <<"/">>, <<>>) : segs \in SegSeqs(2) }
    \cup { <<>> }

UrlAcmeWidgets == <<"https:", "/", "/", "github.com", "/", "acme", "/", "widgets">>

UrlAcmeWidgetsTree ==
    <<"https:", "/", "/", "github.com", "/", "acme", "/", "widgets", "/", "tree", "/", "dev",
      "/", "src", "/", "lib">>

UrlGitlab == <<"https:", "/", "/", "gitlab.com", "/", "acme", "/", "widgets">>

FormUrls == {<<>>, UrlGitlab, UrlAcmeWidgetsTree}

-----------------------------------------------------------------------------
(* Specifications *)

Init ==
    /\ codeData = [code |-> "", language |-> "python", source |-> "snippet", githubRepo |-> Null]
    /\ query = ""
    /\ results = Null
    /\ loading = FALSE
    /\ codeAnalysis = Null
    /\ supportedTechnologies = <<>>
    /\ notifications = <<>>
    /\ now = 0
    /\ pending = <<>>
    /\ githubUrl = <<>>
    /\ showGithubInput = FALSE
    /\ readers = <<>>
    /\ feedback = "none"
    /\ components = <<>>
    /\ closeTimers = <<>>
    /\ activeTab = "official"
    /\ techFetch = "unmounted"
    /\ header = [isHelpOpen |-> FALSE, isDarkMode |-> FALSE, isMobileMenuOpen |-> FALSE,
                 isScrolled |-> FALSE, wide |-> TRUE]
    /\ resultsPanel = [thumbsUp |-> FALSE, thumbsDown |-> FALSE, bookmarked |-> FALSE]

\* The query lifecycle: the form, the submit button, the request and its outcome
Next ==
    \/ CodeEdit
    \/ LanguagePick
    \/ QueryEdit
    \/ ApplyExample
    \/ SnippetButton
    \/ GithubButton
    \/ GithubUrlInput(FormUrls)
    \/ handleGithubSubmit
    \/ ClearAndSwitch
    \/ SubmitClick
    \/ SubmitClickDisabled
    \/ \E i \in 1..Len(pending) : QueryResolves(i)
    \/ \E i \in 1..Len(pending) : QueryFails(i)
    \/ NotificationClose

Spec == Init /\ [][Next]_vars

\* File upload: the form, the file reader, the submit button and the request
NextFile ==
    \/ CodeEdit
    \/ LanguagePick
    \/ QueryEdit
    \/ ApplyExample
    \/ SnippetButton
    \/ FileSelect
    \/ FileLoaded
    \/ SubmitClick
    \/ SubmitClickDisabled
    \/ \E i \in 1..Len(pending) : QueryResolves(i)
    \/ \E i \in 1..Len(pending) : QueryFails(i)
    \/ NotificationClose

SpecFile == Init /\ [][NextFile]_vars

\* The GitHub input area: any of AllUrls typed, loaded, cleared
NextGithub ==
    \/ CodeEdit
    \/ LanguagePick
    \/ SnippetButton
    \/ GithubButton
    \/ GithubUrlInput(AllUrls)
    \/ handleGithubSubmit
    \/ ClearAndSwitch

SpecGithub == Init /\ [][NextGithub]_vars

\* The three sources of the code together, and the requests sent from them
NextSources ==
    \/ CodeEdit
    \/ LanguagePick
    \/ QueryEdit
    \/ SnippetButton
    \/ GithubButton
    \/ GithubUrlInput(FormUrls)
    \/ handleGithubSubmit
    \/ ClearAndSwitch
    \/ FileSelect
    \/ FileLoaded
    \/ SubmitClick

SpecSources == Init /\ [][NextSources]_vars

\* The CodePanel alone: the editor, the language dropdown and the three sources
NextCodePanel ==
    \/ CodeEdit
    \/ LanguagePick
    \/ SnippetButton
    \/ GithubButton
    \/ GithubUrlInput(FormUrls)
    \/ handleGithubSubmit
    \/ ClearAndSwitch
    \/ FileSelect
    \/ FileLoaded

SpecCodePanel == Init /\ [][NextCodePanel]_vars

\* The results: the query lifecycle and the tabs of the ResultsPanel
NextResults ==
    \/ CodeEdit
    \/ LanguagePick
    \/ QueryEdit
    \/ SubmitClick
    \/ \E i \in 1..Len(pending) : QueryResolves(i)
    \/ \E i \in 1..Len(pending) : QueryFails(i)
    \/ NotificationClose
    \/ TabClick
    \/ \E isUp \in BOOLEAN : Vote(isUp)
    \/ toggleBookmark

SpecResults == Init /\ [][NextResults]_vars

\* The same, where a request that can settle does settle and a displayed
\* notification is closed in the end (its timeout, or its close button)
SpecResultsFair ==
    /\ SpecResults
    /\ WF_vars(\E i \in 1..Len(pending) : QueryResolves(i) \/ QueryFails(i))
    /\ WF_vars(NotificationClose)

\* The header, over the form
NextHeader ==
    \/ HelpButton
    \/ MobileMenuButton
    \/ MobileHelpButton
    \/ CloseHelp
    \/ toggleTheme
    \/ handleScroll
    \/ Resize
    \/ CodeEdit
    \/ QueryEdit

SpecHeader == Init /\ [][NextHeader]_vars

\* The page from its mount on: the technology list, the language and the requests
NextTech ==
    \/ Mount
    \/ TechnologiesLoaded
    \/ TechnologiesFailed
    \/ CodeEdit
    \/ LanguagePick
    \/ QueryEdit
    \/ SubmitClick
    \/ \E i \in 1..Len(pending) : QueryFails(i)
    \/ NotificationClose
    \/ Tick

SpecTech == Init /\ [][NextTech]_vars

\* The notifications: the provider, the Notification components and the clock
NextNotify ==
    \/ Notify
    \/ \E i \in 1..Len(notifications) : TimerFires(i)
    \/ \E i \in 1..Len(notifications) : handleClose(i)
    \/ \E k \in 1..Len(closeTimers) : CloseTimerFires(k)
    \/ Tick
    \/ TimePasses

SpecNotify == Init /\ [][NextNotify]_vars

-----------------------------------------------------------------------------
(* Properties *)

\* C1: at most one POST /query issued by the client is outstanding in every
\* reachable state; a submit action taken while a query is pending issues no
\* second request.
C1_AtMostOneInFlight == Len(pending) <= 1

\* a click on the submit button has just been ignored while a request is out
C1_Witness == Len(pending) = 1 /\ loading /\ feedback = SubmitIgnored

\* C2: from every state whose query is empty, whatever the source, the code
\* and the language, no step issues a POST /query.
C2_EmptyQueryNoPost == [][query = "" => Len(pending') <= Len(pending)]_vars

\* a submission with an empty query and a GitHub source was just rejected
C2_Witness ==
    /\ query = ""
    /\ codeData.source = "github"
    /\ pending = <<>>
    /\ \E i \in 1..Len(notifications) : notifications[i].message = MsgNoQuery

\* C3: from every state with source = snippet and empty code, whatever the
\* query text, no step issues a POST /query.
C3_EmptySnippetNoPost ==
    [][(codeData.source = "snippet" /\ codeData.code = "") =>
          Len(pending') <= Len(pending)]_vars

\* a submission with a question and no snippet was rejected
C3_Witness ==
    /\ codeData.source = "snippet" /\ codeData.code = ""
    /\ query # ""
    /\ pending = <<>>
    /\ \E i \in 1..Len(notifications) : notifications[i].message = MsgNoCode

\* C4: with source = snippet, non-empty code, a non-empty query and no request
\* outstanding, a submit is not rejected locally: it issues exactly one POST
\* /query carrying that source, the selected language as technology, that
\* code as code_snippet and that query.
C4_ValidSnippetPosts ==
    [][(/\ SubmitClick
        /\ codeData.source = "snippet" /\ codeData.code # "" /\ query # ""
        /\ pending = <<>>)
       =>
       (/\ Len(pending') = 1
        /\ pending'[1].req.source = "snippet"
        /\ pending'[1].req.technology = codeData.language
        /\ pending'[1].req.code_snippet = codeData.code
        /\ pending'[1].req.query = query
        /\ notifications' = notifications
        /\ loading')]_vars

\* a snippet request in a language other than the default is in flight
C4_Witness ==
    /\ Len(pending) = 1
    /\ pending[1].req.source = "snippet"
    /\ pending[1].req.technology = "javascript"
    /\ pending[1].req.code_snippet = "print(1)"
    /\ pending[1].req.query = "why?"

\* C5: when a submitted query fails, the displayed results and codeAnalysis
\* are what they were when the query was submitted, and an error
\* notification is added.
C5_FailureKeepsResults ==
    [][\A i \in 1..Len(pending) :
          QueryFails(i) =>
             /\ results' = pending[i].shown.results
             /\ codeAnalysis' = pending[i].shown.codeAnalysis
             /\ Len(notifications') = Len(notifications) + 1
             /\ notifications'[Len(notifications')].type = "error"]_vars

\* a query failed while earlier results were displayed
C5_Witness ==
    /\ results # Null
    /\ ~loading /\ pending = <<>>
    /\ \E i \in 1..Len(notifications) : notifications[i].message = MsgFailed

\* C6: in every reachable state the displayed codeAnalysis is the
\* code_analysis of the displayed results.
C6_AnalysisOfResults ==
    codeAnalysis = IF results = Null THEN Null ELSE results.code_analysis

\* a response has just been displayed
C6_Witness ==
    /\ results # Null
    /\ codeAnalysis # Null
    /\ \E i \in 1..Len(notifications) : notifications[i].message = MsgComplete

\* C7: after the read of a selected file completes, the code under analysis
\* is the file's decoded text and source = file.
C7_FileTextBecomesCode ==
    [][FileLoaded =>
          \E i \in 1..Len(readers) :
             /\ readers' = RemoveAt(readers, i)
             /\ codeData'.code = readers[i].result
             /\ codeData'.source = "file"]_vars

\* C8: every QueryRequest sent with source = snippet or source = file has a
\* non-empty code_snippet.
C8_CodeSnippetPresent ==
    \A i \in 1..Len(pending) :
       pending[i].req.source \in {"snippet", "file"} => pending[i].req.code_snippet # ""

\* C9: for a URL with host github.com and path segments p1..pn, n >= 2, the
\* reference handed to onSourceChange is owner = p1, repo = p2, branch = p4
\* when p3 = "tree" and n >= 4 and "main" otherwise, path = p5..pn joined by
\* "/" when p3 = "tree" and n >= 5 and absent otherwise.
C9_GithubUrlParsing ==
    [][LET url == NewURL(githubUrl)
           p == SelectSeq(url.pathname, LAMBDA t : t # "/")
           n == Len(p)
           joined[k \in 5..n] == IF k = 5 THEN p[5] ELSE joined[k - 1] \o "/" \o p[k]
       IN  (handleGithubSubmit /\ url.ok /\ url.hostname = "github.com" /\ n >= 2) =>
              /\ codeData'.source = "github"
              /\ codeData'.githubRepo.owner = p[1]
              /\ codeData'.githubRepo.repo = p[2]
              /\ codeData'.githubRepo.branch =
                    (IF n >= 4 /\ p[3] = "tree" THEN p[4] ELSE "main")
              /\ codeData'.githubRepo.path =
                    (IF n >= 5 /\ p[3] = "tree" THEN joined[n] ELSE Absent)
              /\ (githubUrl = UrlAcmeWidgets =>
                    codeData'.githubRepo =
                       [owner |-> "acme", repo |-> "widgets", branch |-> "main",
                        path |-> Absent])
              /\ (githubUrl = UrlAcmeWidgetsTree =>
                    codeData'.githubRepo =
                       [owner |-> "acme", repo |-> "widgets", branch |-> "dev",
                        path |-> "src/lib"])]_vars

\* https://github.com/acme/widgets/tree/dev/src/lib was loaded
C9_Witness ==
    /\ githubUrl = UrlAcmeWidgetsTree
    /\ ~showGithubInput
    /\ codeData.source = "github"
    /\ codeData.githubRepo =
          [owner |-> "acme", repo |-> "widgets", branch |-> "dev", path |-> "src/lib"]

\* C10: a GitHub URL whose host is not github.com is rejected: codeData is
\* unchanged (onSourceChange is not called) and the GitHub input stays open.
C10_ForeignHostRejected ==
    [][LET url == NewURL(githubUrl)
       IN  (handleGithubSubmit /\ url.ok /\ url.hostname # "github.com") =>
              /\ codeData' = codeData
              /\ showGithubInput /\ showGithubInput']_vars

\* a URL of another host was just refused, over edited form fields
C10_Witness ==
    /\ feedback = AlertInvalidUrl
    /\ NewURL(githubUrl).ok /\ NewURL(githubUrl).hostname = "gitlab.com"
    /\ showGithubInput
    /\ codeData.code # "" /\ codeData.source = "snippet"

\* C11: in every reachable state, and in every request sent, githubRepo is
\* non-null exactly when source is "github"
C11_GithubRepoIffGithub ==
    /\ (codeData.githubRepo # Null) <=> (codeData.source = "github")
    /\ \A i \in 1..Len(pending) :
          (pending[i].req.github_repo # Null) <=> (pending[i].req.source = "github")
    /\ \A i \in 1..Len(readers) :
          (readers[i].cd.githubRepo # Null) <=> (readers[i].cd.source = "github")

\* a request from a GitHub repository is in flight, and the source has since
\* become the uploaded file
C11_Witness ==
    /\ codeData.source = "file"
    /\ codeData.githubRepo = Null
    /\ \E i \in 1..Len(pending) :
          /\ pending[i].req.source = "github"
          /\ pending[i].req.github_repo # Null

\* C12: every request the client sends has a technology that is a member of
\* the list GET /technologies returned, also when the request is sent before
\* the list has loaded or after its fetch failed
C12_TechnologyInList ==
    [][(techFetch # "unmounted" /\ Len(pending') > Len(pending)) =>
          \E k \in 1..Len(supportedTechnologies) :
              pending'[Len(pending')].req.technology = supportedTechnologies[k]]_vars

\* C13: countdowns are independent: whatever happens to the rest of the list,
\* the auto-dismiss timeout of a notification with duration d > 0 is due d ms
\* after its own creation (its id is the Date.now() of its creation)
C13_IndependentCountdowns ==
    \A i \in 1..Len(notifications) :
        (notifications[i].duration > 0 /\ components[i].timer # NoTimer) =>
            components[i].timer = notifications[i].id + notifications[i].duration

\* C14: a notification with duration d > 0 that was not dismissed by hand is
\* not removed from the list before d ms have passed since its creation
C14_RemovedNotBeforeDuration ==
    [][\A i \in 1..Len(notifications) :
          LET n == notifications[i]
              Gone == /\ Len(notifications') < Len(notifications)
                      /\ \A j \in 1..Len(notifications') : notifications'[j].id # n.id
          IN  (n.duration > 0 /\ ~components[i].closed /\ Gone) =>
                  now >= n.id + n.duration]_vars

\* C15: a notification with duration 0 leaves the list only after it was
\* dismissed by hand
C15_PinnedStaysUntilDismissed ==
    [][\A i \in 1..Len(notifications) :
          LET n == notifications[i]
              Gone == /\ Len(notifications') < Len(notifications)
                      /\ \A j \in 1..Len(notifications') : notifications'[j].id # n.id
          IN  (n.duration = 0 /\ Gone) => components[i].closed]_vars

\* C16: removal is idempotent: removing an id that is not in the list leaves
\* the list unchanged, and removing the same id twice gives the same list as
\* removing it once
C16_RemovalIdempotent ==
    [][/\ \A k \in 1..Len(closeTimers) :
             (/\ CloseTimerFires(k)
              /\ \A i \in 1..Len(notifications) : notifications[i].id # closeTimers[k].id)
             => notifications' = notifications
       /\ \A id \in {notifications[i].id : i \in 1..Len(notifications)} \cup {now} :
             LET once == removeNotification(notifications, id)
             IN  removeNotification(once, id) = once]_vars

\* a timeout set for a notification that is already removed is about to call
\* removeNotification, while another notification is in the list
C16_Witness ==
    /\ notifications # <<>>
    /\ \E k \in 1..Len(closeTimers) :
          /\ closeTimers[k].due <= now
          /\ \A i \in 1..Len(notifications) : notifications[i].id # closeTimers[k].id

\* C17: manual dismissal removes the notification from the list immediately:
\* no notification in the list has been dismissed by hand
C17_DismissedNotInList ==
    \A i \in 1..Len(notifications) : ~components[i].closed

\* C17, amended: the close button hides the notification at once and leaves
\* the list unchanged; the notification is removed by the timeout the button
\* sets, which is due 300 ms later
C17_DismissedRemovedAfterDelay ==
    [][/\ \A i \in 1..Len(notifications) :
             handleClose(i) =>
                 /\ notifications' = notifications
                 /\ ~components'[i].isVisible
                 /\ closeTimers' = Append(closeTimers, [id |-> notifications[i].id,
                                                         due |-> now + CloseDelay])
       /\ \A i \in 1..Len(notifications) :
             components[i].closed =>
                 /\ ~components[i].isVisible
                 /\ \E k \in 1..Len(closeTimers) :
                       /\ closeTimers[k].id = notifications[i].id
                       /\ closeTimers[k].due >= now
                       /\ closeTimers[k].due <= now + CloseDelay
       /\ \A k \in 1..Len(closeTimers) :
             CloseTimerFires(k) =>
                 \A j \in 1..Len(notifications') : notifications'[j].id # closeTimers[k].id]_vars

\* a notification dismissed by hand is still in the list when its 300 ms are over
C17_Witness ==
    \E i \in 1..Len(notifications) :
        /\ components[i].closed
        /\ \E k \in 1..Len(closeTimers) :
              /\ closeTimers[k].id = notifications[i].id
              /\ closeTimers[k].due = now
              /\ now >= CloseDelay

\* C18: the list is in insertion order: a step appends one notification at
\* the end, or keeps a sub-sequence of the list in its order with its
\* contents, and the creation times never decrease along the list
C18_InsertionOrder ==
    [][LET n == Len(notifications)
           Sub(S) == LET idx == SelectSeq([i \in 1..n |-> i], LAMBDA i : i \in S)
                     IN  [k \in 1..Len(idx) |-> notifications[idx[k]]]
       IN  /\ \/ /\ Len(notifications') = n + 1
                 /\ SubSeq(notifications', 1, n) = notifications
                 /\ notifications'[n + 1].id = now
              \/ \E S \in SUBSET (1..n) : notifications' = Sub(S)
           /\ \A i, j \in 1..Len(notifications') :
                 i < j => notifications'[i].id <= notifications'[j].id]_vars

\* two different notifications are left in the list by the removal of a third,
\* which set their timeouts again
C18_Witness ==
    /\ Len(notifications) = 2
    /\ notifications[1].duration # notifications[2].duration
    /\ now >= CloseDelay
    /\ closeTimers = <<>>
    /\ \E i \in 1..2 : /\ notifications[i].duration > 0
                        /\ components[i].timer = now + notifications[i].duration

\* C19: changing the active tab issues no request and leaves results,
\* codeAnalysis, loading, the form fields and the notification list
\* unchanged: a step that changes activeTab changes nothing else
C19_TabChangeOnly ==
    [][activeTab' # activeTab =>
          /\ pending' = pending
          /\ results' = results
          /\ codeAnalysis' = codeAnalysis
          /\ loading' = loading
          /\ codeData' = codeData
          /\ query' = query
          /\ notifications' = notifications
          /\ UNCHANGED <<supportedTechnologies, techFetch, components, closeTimers,
                         now, panelVars>>]_vars

\* the analysis tab is selected over displayed results, with nothing in flight
C19_Witness ==
    /\ activeTab = "analysis"
    /\ results # Null
    /\ ~loading
    /\ pending = <<>>

\* C20: when a response is displayed with one solution absent and the other
\* present, the tab of the absent one shows "No <type> solution available",
\* which is neither the loading view nor the no-results view, and the tab of
\* the present one shows its solution
C20_PartialResult ==
    LET Panel(tab) == ResultsPanel(results, loading, tab, codeAnalysis)
        Other(type) == IF type = "official" THEN "community" ELSE "official"
        Solution(type) == IF type = "official" THEN results.official_solution
                          ELSE results.community_solution
    IN  (~loading /\ results # Null) =>
            \A type \in {"official", "community"} :
                (Solution(type) = Null /\ Solution(Other(type)) # Null) =>
                    /\ Panel(type).view = "empty"
                    /\ Panel(type).text =
                          IF type = "community" THEN "No community solution available"
                          ELSE "No official solution available"
                    /\ Panel(type) # ResultsPanel(results, TRUE, type, codeAnalysis)
                    /\ Panel(type) # ResultsPanel(Null, FALSE, type, codeAnalysis)
                    /\ Panel(Other(type)) =
                          [view |-> "solution", text |-> Solution(Other(type)).answer]

\* the community tab is selected over a response that has only an official solution
C20_Witness ==
    /\ ~loading
    /\ results # Null
    /\ results.community_solution = Null
    /\ results.official_solution # Null
    /\ activeTab = "community"
    /\ ResultsPanel(results, loading, activeTab, codeAnalysis).text
          = "No community solution available"

\* C21: the notification produced by a failed query is the same for every
\* error: the state after the failure is determined by the state before it
\* (one fixed error notification is appended) and no text of the error is shown
C21_GenericErrorNotification ==
    [][\A i \in 1..Len(pending) :
          QueryFails(i) =>
              /\ notifications' =
                    Append(notifications, [id |-> now, type |-> "error",
                                           message |-> MsgFailed,
                                           duration |-> DefaultDuration])
              /\ \A error \in Errors :
                    \A k \in 1..Len(notifications') :
                        notifications'[k].message \notin {error.message, error.detail}
              /\ results' = results
              /\ codeAnalysis' = codeAnalysis
              /\ loading' = FALSE
              /\ UNCHANGED <<codeData, query, activeTab, supportedTechnologies>>]_vars

\* a query has failed while results of an earlier one are displayed, and the
\* list holds the fixed message only
C21_Witness ==
    /\ ~loading
    /\ pending = <<>>
    /\ results # Null
    /\ notifications # <<>>
    /\ \A k \in 1..Len(notifications) :
          /\ notifications[k].type = "error"
          /\ notifications[k].message = MsgFailed

\* C22: there is no abort path: loading is true exactly while a request is
\* outstanding, the tab buttons are not rendered meanwhile, and a step that is
\* not the success or the failure of the request leaves loading true and the
\* request outstanding
C22_NoAbortPath ==
    [][/\ loading <=> (pending # <<>>)
       /\ loading => ~TabButtonsShown
       /\ (loading /\ ~\E i \in 1..Len(pending) : QueryResolves(i) \/ QueryFails(i))
             => (loading' /\ pending' = pending)]_vars

\* while the request is outstanding the user has changed the source and the
\* question, and the notifications are gone
C22_Witness ==
    /\ loading
    /\ Len(pending) = 1
    /\ pending[1].req.source # codeData.source
    /\ pending[1].req.query # query
    /\ pending[1].req.technology # codeData.language
    /\ notifications = <<>>

\* C23: when requests do settle, every submission that reached the network is
\* followed by a state with loading false and the submit button enabled, and
\* both the success and the failure of a request lead to such a state
C23_LoadingEnds ==
    /\ loading ~> (~loading /\ ~SubmitDisabled)
    /\ [][\A i \in 1..Len(pending) :
             (QueryResolves(i) \/ QueryFails(i)) => (~loading' /\ ~SubmitDisabled')]_vars

\* a second query has settled after a first one had succeeded
C23_Witness ==
    /\ ~loading
    /\ ~SubmitDisabled
    /\ pending = <<>>
    /\ results # Null
    /\ Len(notifications) = 1
    /\ notifications[1].message = MsgFailed
    /\ activeTab = "community"

\* C24: the help panel and the mobile menu are never open at the same time
C24_HelpAndMenuExclusive ==
    ~(header.isHelpOpen /\ header.isMobileMenuOpen)

\* C25: the notifications in the list have pairwise distinct ids, whatever the
\* timing of the addNotification calls, so that a removal by id removes at
\* most one notification
C25_DistinctIds ==
    [][/\ \A i, j \in 1..Len(notifications) :
             i # j => notifications[i].id # notifications[j].id
       /\ Len(notifications') >= Len(notifications) - 1]_vars

\* C26: the completion of a file read does not revert what the user did
\* between choosing the file and the completion: the language after the
\* completion is the language selected immediately before it
C26_FileReadKeepsLanguage ==
    [][FileLoaded => codeData'.language = codeData.language]_vars

\* C27: a submission rejected by the local validation leaves loading false
\* and results, codeAnalysis, codeData, query and activeTab unchanged, sends
\* nothing, and adds exactly one error notification: the missing-code one
\* when the code is empty in snippet mode, else the missing-question one
C27_RejectedSubmissionFrame ==
    [][(/\ SubmitClick
        /\ (codeData.code = "" /\ codeData.source = "snippet") \/ query = "")
          => /\ ~loading /\ ~loading'
             /\ pending' = pending
             /\ UNCHANGED <<results, codeAnalysis, codeData, query, activeTab>>
             /\ notifications' =
                   Append(notifications,
                          [id |-> now, type |-> "error",
                           message |-> IF codeData.code = "" /\ codeData.source = "snippet"
                                       THEN MsgNoCode ELSE MsgNoQuery,
                           duration |-> DefaultDuration])]_vars

\* with code and question both empty in snippet mode, the only notification
\* is the missing-code one, over displayed results
C27_Witness ==
    /\ codeData.code = ""
    /\ codeData.source = "snippet"
    /\ query = ""
    /\ results # Null
    /\ ~loading
    /\ Len(notifications) = 1
    /\ notifications[1].message = MsgNoCode

\* C28: a source change preserves the other form fields: the Snippet button,
\* a GitHub load and "Clear and switch to code snippet" leave code and
\* language unchanged and set githubRepo (null for snippet); a code edit or a
\* language change leaves source and githubRepo unchanged; a completed file
\* read sets githubRepo to null
C28_SourceChangeFrame ==
    [][/\ (SnippetButton \/ ClearAndSwitch \/ handleGithubSubmit) =>
             /\ codeData'.code = codeData.code
             /\ codeData'.language = codeData.language
       /\ (SnippetButton \/ ClearAndSwitch) =>
             /\ codeData'.source = "snippet"
             /\ codeData'.githubRepo = Null
       /\ (handleGithubSubmit /\ codeData' # codeData) =>
             /\ codeData'.source = "github"
             /\ codeData'.githubRepo # Null
       /\ (CodeEdit \/ LanguagePick) =>
             /\ codeData'.source = codeData.source
             /\ codeData'.githubRepo = codeData.githubRepo
       /\ FileLoaded =>
             /\ codeData'.source = "file"
             /\ codeData'.githubRepo = Null
       /\ (/\ ~FileLoaded
           /\ \/ codeData'.source # codeData.source
              \/ codeData'.githubRepo # codeData.githubRepo)
             => /\ codeData'.code = codeData.code
                /\ codeData'.language = codeData.language]_vars

\* a repository is loaded over code typed before and a language picked before
C28_Witness ==
    /\ codeData.source = "github"
    /\ codeData.githubRepo # Null
    /\ codeData.code = "print(1)"
    /\ codeData.language = "javascript"
    /\ ~showGithubInput

\* C29: thumbsUp and thumbsDown are never both true; a vote leaves exactly
\* that vote set, and a newly displayed results object resets both flags
C29_VotesExclusive ==
    [][/\ ~(resultsPanel.thumbsUp /\ resultsPanel.thumbsDown)
       /\ ~(resultsPanel'.thumbsUp /\ resultsPanel'.thumbsDown)
       /\ \A isUp \in BOOLEAN :
             Vote(isUp) => /\ resultsPanel'.thumbsUp = isUp
                           /\ resultsPanel'.thumbsDown = ~isUp
       /\ (\E i \in 1..Len(pending) : QueryResolves(i)) =>
             /\ ~resultsPanel'.thumbsUp
             /\ ~resultsPanel'.thumbsDown
       /\ (resultsPanel'.thumbsUp # resultsPanel.thumbsUp
              \/ resultsPanel'.thumbsDown # resultsPanel.thumbsDown)
             => \/ \E isUp \in BOOLEAN : Vote(isUp)
                \/ \E i \in 1..Len(pending) : QueryResolves(i)]_vars

\* a down vote on the community solution of a second response, after an up
\* vote: only the down vote is set
C29_Witness ==
    /\ resultsPanel.thumbsDown
    /\ ~resultsPanel.thumbsUp
    /\ resultsPanel.bookmarked
    /\ activeTab = "community"
    /\ results # Null
    /\ results.community_solution # Null
    /\ ~loading

\* C30: when the technology fetch of the mount effect fails,
\* supportedTechnologies stays empty, exactly one error notification is
\* added, loading and results are unchanged, and the dropdown offers the
\* fallback set python, javascript, typescript, react, from which the user
\* picks the language of the requests sent afterwards
C30_TechnologyFetchFailure ==
    /\ [](techFetch = "failed" =>
            /\ supportedTechnologies = <<>>
            /\ DropdownOptions(supportedTechnologies)
                  = {"python", "javascript", "typescript", "react"}
            /\ codeData.language \in DropdownOptions(supportedTechnologies))
    /\ [][/\ TechnologiesFailed =>
               /\ supportedTechnologies = <<>>
               /\ supportedTechnologies' = <<>>
               /\ notifications' = Append(notifications,
                                          [id |-> now, type |-> "error",
                                           message |-> MsgTechFailed,
                                           duration |-> DefaultDuration])
               /\ loading' = loading
               /\ results' = results
               /\ UNCHANGED <<codeData, query, codeAnalysis, pending>>
          /\ (techFetch = "failed" /\ Len(pending') > Len(pending)) =>
               /\ SubmitClick
               /\ pending'[Len(pending')].req.technology = codeData.language
               /\ codeData.language \in {"python", "javascript", "typescript", "react"}]_vars

\* the fetch failed while the welcome notification was displayed, and a query
\* on a language picked from the fallback buttons was sent afterwards
C30_Witness ==
    /\ techFetch = "failed"
    /\ Len(notifications) = 2
    /\ notifications[1].type = "info"
    /\ notifications[2].message = MsgTechFailed
    /\ notifications[1].id # notifications[2].id
    /\ loading
    /\ Len(pending) = 1
    /\ pending[1].req.technology = "javascript"

====
